---------------------------- MODULE Spec2Model ----------------------------
(***************************************************************************)
(* Model of the PG-Strom OpenCL intermediation server (opencl_serv.c):     *)
(* the main routine pgstrom_opencl_main, the worker event loop, the two    *)
(* signal handlers and the round-robin device scheduler.                   *)
(*                                                                         *)
(* The server message queue (pgstrom_dequeue_server_message,               *)
(* pgstrom_cancel_server_loop, pgstrom_close_server_queue and the          *)
(* producers' enqueue) lives in another file of the repository; it is      *)
(* modelled from section 4.4 of the specification, each operation being    *)
(* one atomic step, as its contract describes it.                          *)
(***************************************************************************)
EXTENDS Integers, Sequences, FiniteSets, TLC

(***************************************************************************)
(* Bounds of the model.                                                    *)
(***************************************************************************)
\* number of devices of the registry (opencl_num_devices); the scheduler is
\* explored for every device count from 1 to MaxDevices
MaxDevices == 2
\* largest opencl_num_threads explored
MaxThreads == 2
\* number of messages the producers try to enqueue
MaxMsgs == 2
\* number of signals (SIGTERM or SIGHUP) delivered to the process
MaxSignals == 2
\* number of calls of pgstrom_opencl_device_schedule
MaxCalls == 4
\* largest strlen(buf) of a log line given to __clserv_log
MaxLen == 5
\* payload bytes of one frame of the log pipe (PIPE_MAX_PAYLOAD of
\* postmaster/syslogger.h, scaled down)
PIPE_MAX_PAYLOAD == 2

(***************************************************************************)
(* Program constants.                                                      *)
(***************************************************************************)
\* <limits.h>: the range of "static int index"
INT_MAX == 2147483647
INT_MIN == -INT_MAX - 1

NoMsg == 0
Msgs == 1..MaxMsgs
Workers == 0..(MaxThreads - 1)
Signals == {"SIGTERM", "SIGHUP"}
Threads == {-1} \cup Workers  \* -1 is the main thread
NoThread == -2                 \* the holder of a lock that is free
Bytes == {0, 1}                \* the characters of a log line

VARIABLES
    \* ---- pgstrom_opencl_main
    mainPc,                       \* position of the main routine
    i,                            \* its local "int i"
    opencl_num_threads,           \* static int opencl_num_threads
    joined,                       \* workers joined so far, in join order
    failedAt,                     \* the i at which pthread_create failed, or -1
    logged,                       \* log lines written so far
    \* ---- init_opencl_context_and_shmem
    opencl_num_devices,           \* number of devices of the registry
    opencl_context,               \* TRUE once clCreateContext succeeded
    opencl_cmdq,                  \* opencl_cmdq[d]: TRUE once created
    ci,                           \* its local "cl_int i"
    \* ---- signal flag and handlers
    pgstrom_clserv_exit_pending,  \* volatile bool
    handlers,                     \* handler invocations that have not returned
    nsig,                         \* signals delivered so far
    cancelCalls,                  \* calls of pgstrom_cancel_server_loop so far
    \* ---- __clserv_log, the branch that writes pipe chunks
    lpc,                          \* position inside the branch
    buf,                          \* the formatted line, strlen(buf) characters
    data,                         \* "char *data", as an offset into buf
    len,                          \* "size_t len", the characters not yet written
    frames,                       \* the chunks written to the pipe, in order
    \* ---- pgstrom_opencl_event_loop, one per worker
    wpc,                          \* position of each worker thread
    wmsg,                         \* the worker's local "msg"
    lastDeq,                      \* "msg" once a dequeue of the worker has
                                  \* returned a message and until its next
                                  \* call of dequeue, "none" otherwise
    \* ---- server message queue
    qstate,                       \* "Open", "Cancelling" or "Closed"
    queue,                        \* pending messages, oldest first
    nmsg,                         \* messages enqueued so far
    processed,                    \* processed[m]: callback invocations of m
    failed,                       \* failed[m]: times m was failed back
    drained,                      \* result of closeAndDrain
    rejected,                     \* messages whose enqueue failed (QueueClosed)
    blockedAtCancel,              \* workers blocked in dequeue when cancel ran
    queuedAtCancel,               \* messages queued when cancel ran
    qlock,                        \* the thread that holds the queue's lock
    \* ---- pgstrom_opencl_device_schedule
    index,                        \* static int index
    spc,                          \* position of each caller inside the function
    stmp,                         \* the value of index a caller has read
    schedLog,                     \* returned indices, in order of return
    readLog,                      \* values of index read, in order of return
    raced                         \* TRUE once two calls overlapped

mainVars == <<mainPc, i, opencl_num_threads, joined, failedAt, logged>>
initVars == <<opencl_num_devices, opencl_context, opencl_cmdq, ci>>
logVars == <<lpc, buf, data, len, frames>>
sigVars == <<pgstrom_clserv_exit_pending, handlers, nsig, cancelCalls, logVars>>
workerVars == <<wpc, wmsg, lastDeq>>
queueVars == <<qstate, queue, nmsg, processed, failed, drained, rejected,
               blockedAtCancel, queuedAtCancel, qlock>>
schedVars == <<index, spc, stmp, schedLog, readLog, raced>>
vars == <<mainVars, initVars, sigVars, workerVars, queueVars, schedVars>>

Range(s) == {s[k] : k \in 1..Len(s)}

(***************************************************************************)
(* The process exists from the start of pgstrom_opencl_main until it       *)
(* returns or elog(ERROR) ends it.                                         *)
(***************************************************************************)
Ended == mainPc \in {"done", "oom", "aborted"}
\* a thread that exists and has not returned
Live(t) == IF t = -1 THEN ~Ended ELSE wpc[t] \in {"check", "deq", "cb"}
\* a thread executing a signal handler does not run its own code meanwhile
Interrupted(t) == \E k \in 1..Len(handlers) : handlers[k].thr = t

\* no call of __clserv_log is in progress
LogIdle ==
    /\ lpc = "idle"
    /\ buf = <<>>
    /\ data = 0
    /\ len = 0
    /\ frames = <<>>

\* the state when the postmaster starts the background worker
InitServer ==
    /\ mainPc = "start"
    /\ i = 0
    /\ opencl_num_threads \in 0..MaxThreads
    /\ joined = <<>>
    /\ failedAt = -1
    /\ logged = {}
    /\ opencl_context = FALSE
    /\ opencl_cmdq = [d \in 0..(MaxDevices - 1) |-> FALSE]
    /\ ci = 0
    /\ pgstrom_clserv_exit_pending = FALSE
    /\ handlers = <<>>
    /\ nsig = 0
    /\ cancelCalls = 0
    /\ wpc = [w \in Workers |-> "none"]
    /\ wmsg = [w \in Workers |-> NoMsg]
    /\ lastDeq = [w \in Workers |-> "none"]
    /\ qstate = "Open"
    /\ queue = <<>>
    /\ nmsg = 0
    /\ processed = [m \in Msgs |-> 0]
    /\ failed = [m \in Msgs |-> 0]
    /\ drained = <<>>
    /\ rejected = {}
    /\ blockedAtCancel = {}
    /\ queuedAtCancel = {}
    /\ qlock = NoThread
    /\ spc = [w \in Workers |-> "idle"]
    /\ stmp = [w \in Workers |-> 0]
    /\ schedLog = <<>>
    /\ readLog = <<>>
    /\ raced = FALSE
    /\ opencl_num_devices = MaxDevices
    /\ index = 0

Init == InitServer /\ LogIdle

(***************************************************************************)
(* Server message queue (specification, sections 4.4 and 5).  Every        *)
(* operation runs under the queue's lock.  In Spec a call takes the lock,  *)
(* acts and releases it in one step; LockSpec, further down, has the calls *)
(* made by the threads of the server take and release the lock in separate *)
(* steps, between which a signal can be delivered.                         *)
(***************************************************************************)
\* mutant of CancelState: a second request undoes the first
CancelStateToggle(q) == IF q = "Open" THEN "Cancelling" ELSE "Open"

\* requestCancel: Open becomes Cancelling, never a step backward
CancelState(q) == IF q = "Open" THEN "Cancelling" ELSE q

\* a worker inside dequeueBlocking with nothing to return
Blocked(w) == wpc[w] = "deq" /\ queue = <<>> /\ qstate = "Open"

\* pgstrom_cancel_server_loop: sets cancelling and wakes every blocked
\* dequeuer; the caller holds the lock
RequestCancel ==
    /\ qstate' = CancelState(qstate)
    /\ cancelCalls' = cancelCalls + 1
    /\ blockedAtCancel' = blockedAtCancel \cup {w \in Workers : Blocked(w)}
    /\ queuedAtCancel' = queuedAtCancel \cup Range(queue)
    /\ UNCHANGED <<queue, nmsg, processed, failed, drained, rejected>>

\* mutant of EnqueueSucceeds: enqueue fails only once the queue is closed
EnqueueSucceedsUnlessClosed(q) == q # "Closed"

\* "enqueue succeeds only in Open"
EnqueueSucceeds(q) == q = "Open"

\* enqueue(message): appends, or fails with QueueClosed and changes nothing
EnqueueMessage ==
    /\ nmsg < MaxMsgs
    /\ nmsg' = nmsg + 1
    /\ IF EnqueueSucceeds(qstate)
          THEN /\ queue' = Append(queue, nmsg + 1)
               /\ UNCHANGED rejected
          ELSE /\ rejected' = rejected \cup {nmsg + 1}
               /\ UNCHANGED queue
    /\ UNCHANGED <<qstate, processed, failed, drained,
                   blockedAtCancel, queuedAtCancel>>

\* enqueue by a producer, a backend process
Enqueue ==
    /\ qlock = NoThread
    /\ EnqueueMessage
    /\ UNCHANGED qlock
    /\ UNCHANGED <<mainVars, initVars, sigVars, workerVars, schedVars>>

\* what dequeueBlocking may return now; the empty set while it blocks
DequeueResults ==
    (IF queue # <<>> THEN {Head(queue)} ELSE {})
        \cup (IF qstate # "Open" THEN {NoMsg} ELSE {})

\* closeAndDrain: sets closed and hands back every message still queued
CloseServerQueue ==
    /\ qlock = NoThread
    /\ UNCHANGED qlock
    /\ qstate' = "Closed"
    /\ drained' = queue
    /\ failed' = [m \in Msgs |->
                    failed[m] + Cardinality({k \in 1..Len(queue) : queue[k] = m})]
    /\ queue' = <<>>
    /\ UNCHANGED <<nmsg, processed, rejected, blockedAtCancel, queuedAtCancel>>

(***************************************************************************)
(* Signal handlers pgstrom_opencl_sigterm and pgstrom_opencl_sighup.       *)
(***************************************************************************)
\* mutant of HandlerCancels: the handler cancels only when the flag was clear
HandlerCancelsOnce(pending) == ~pending

\* whether the handler calls pgstrom_cancel_server_loop: it always does
HandlerCancels(pending) == TRUE

\* mutant of HandlerFlag: the handler flips the flag
HandlerFlagToggle(old) == ~old

\* "pgstrom_clserv_exit_pending = true" of both handlers
HandlerFlag(old) == TRUE

\* A signal is delivered to thread t, which enters the handler and executes
\* its first statement, pgstrom_clserv_exit_pending = true.  While a handler
\* of sig runs on t, sig is blocked on t.
SigDeliver(sig, t) ==
    /\ mainPc # "start"
    /\ ~Ended
    /\ Live(t)
    /\ nsig < MaxSignals
    /\ \A k \in 1..Len(handlers) :
           ~(handlers[k].thr = t /\ handlers[k].sig = sig)
    /\ nsig' = nsig + 1
    /\ pgstrom_clserv_exit_pending' = HandlerFlag(pgstrom_clserv_exit_pending)
    /\ handlers' = Append(handlers,
                          [sig |-> sig, thr |-> t,
                           pending |-> pgstrom_clserv_exit_pending])
    /\ UNCHANGED <<cancelCalls, logVars>>
    /\ UNCHANGED <<mainVars, initVars, workerVars, queueVars, schedVars>>

\* frame k is the innermost handler of its thread
Innermost(k) == \A j \in (k + 1)..Len(handlers) : handlers[j].thr # handlers[k].thr

RemoveAt(s, k) == [j \in 1..(Len(s) - 1) |-> IF j < k THEN s[j] ELSE s[j + 1]]

\* The rest of the handler: pgstrom_cancel_server_loop(), clserv_log(), return.
\* The line "Got SIGTERM" or "Got SIGHUP" goes to the log stream; logged
\* keeps the lines of the main routine only.
HandlerFinish(k) ==
    /\ k \in 1..Len(handlers)
    /\ Innermost(k)
    /\ IF HandlerCancels(handlers[k].pending)
          THEN /\ qlock = NoThread
               /\ RequestCancel
               /\ UNCHANGED qlock
          ELSE UNCHANGED <<queueVars, cancelCalls>>
    /\ handlers' = RemoveAt(handlers, k)
    /\ UNCHANGED <<pgstrom_clserv_exit_pending, nsig, logVars>>
    /\ UNCHANGED <<mainVars, initVars, workerVars, schedVars>>

(***************************************************************************)
(* pgstrom_opencl_event_loop, run by every worker thread.                  *)
(***************************************************************************)
\* mutant of LoopCond: "while (pgstrom_clserv_exit_pending)"
LoopCondInverted(flag) == IF flag THEN "deq" ELSE "exited"

\* "while (!pgstrom_clserv_exit_pending)": leave the loop or call dequeue.
\* CHECK_FOR_INTERRUPTS() does nothing here: the handlers above never set
\* InterruptPending.
LoopCond(flag) == IF flag THEN "exited" ELSE "deq"

\* mutant of AfterDequeue: the loop continues whatever was dequeued
AfterDequeueDrop(m) == "check"

\* "if (!msg) continue; msg->cb_process(msg);"
AfterDequeue(m) == IF m = NoMsg THEN "check" ELSE "cb"

WorkerCheck(w) ==
    /\ wpc[w] = "check"
    /\ ~Interrupted(w)
    /\ wpc' = [wpc EXCEPT ![w] = LoopCond(pgstrom_clserv_exit_pending)]
    \* entering the loop body the worker calls dequeue: no result yet
    /\ lastDeq' = [lastDeq EXCEPT ![w] = IF wpc'[w] = "deq" THEN "none" ELSE @]
    /\ UNCHANGED wmsg
    /\ UNCHANGED <<mainVars, initVars, sigVars, queueVars, schedVars>>

\* pgstrom_dequeue_server_message() returns m, and the callback is entered
DequeueReturn(w) ==
    /\ \E m \in DequeueResults :
         /\ queue' = IF m = NoMsg THEN queue ELSE Tail(queue)
         /\ wpc' = [wpc EXCEPT ![w] = AfterDequeue(m)]
         /\ wmsg' = [wmsg EXCEPT ![w] = IF AfterDequeue(m) = "cb" THEN m ELSE NoMsg]
         /\ processed' = IF AfterDequeue(m) = "cb"
                            THEN [processed EXCEPT ![m] = @ + 1]
                            ELSE processed
         /\ lastDeq' = [lastDeq EXCEPT ![w] = IF m = NoMsg THEN "none" ELSE "msg"]
    /\ UNCHANGED <<qstate, nmsg, failed, drained, rejected,
                   blockedAtCancel, queuedAtCancel>>
    /\ UNCHANGED <<mainVars, initVars, sigVars, schedVars>>

WorkerDequeue(w) ==
    /\ wpc[w] = "deq"
    /\ ~Interrupted(w)
    /\ qlock = NoThread
    /\ DequeueReturn(w)
    /\ UNCHANGED qlock

\* msg->cb_process(msg) returns
WorkerCallbackReturn(w) ==
    /\ wpc[w] = "cb"
    /\ ~Interrupted(w)
    /\ qlock # w
    /\ wpc' = [wpc EXCEPT ![w] = "check"]
    /\ wmsg' = [wmsg EXCEPT ![w] = NoMsg]
    /\ UNCHANGED lastDeq
    /\ UNCHANGED <<mainVars, initVars, sigVars, queueVars, schedVars>>

\* msg->cb_process(msg) enqueues a message while it runs (the case the XXX
\* comment of pgstrom_opencl_main describes)
CallbackEnqueue(w) ==
    /\ wpc[w] = "cb"
    /\ ~Interrupted(w)
    /\ qlock = NoThread
    /\ EnqueueMessage
    /\ UNCHANGED qlock
    /\ UNCHANGED <<mainVars, initVars, sigVars, workerVars, schedVars>>

(***************************************************************************)
(* init_opencl_context_and_shmem, called by pgstrom_opencl_main.           *)
(* elog(ERROR) ends the background worker process.                         *)
(***************************************************************************)
\* mutant of AfterCmdq: "i < opencl_num_devices - 1"
AfterCmdqOffByOne(k, n) == IF k + 1 < n - 1 THEN "cmdq" ELSE "shmem"

\* "for (i=0; i < opencl_num_devices; i++)" after the queue of device k
AfterCmdq(k, n) == IF k + 1 < n THEN "cmdq" ELSE "shmem"

\* mutant of AfterCmdqFail: the failure is ignored and the loop goes on
AfterCmdqFailSkip(k, n) == AfterCmdq(k, n)

\* clCreateCommandQueue failed for device k of n: elog(ERROR)
AfterCmdqFail(k, n) == "aborted"

\* pqsignal(SIGHUP), pqsignal(SIGTERM), BackgroundWorkerUnblockSignals()
InstallHandlers ==
    /\ mainPc = "start"
    /\ mainPc' = "ctx"
    /\ UNCHANGED <<i, opencl_num_threads, joined, failedAt, logged>>
    /\ UNCHANGED <<initVars, sigVars, workerVars, queueVars, schedVars>>

\* clCreateContext
CreateContext ==
    /\ mainPc = "ctx"
    /\ ~Interrupted(-1)
    /\ \E ok \in BOOLEAN :
         IF ok THEN /\ opencl_context' = TRUE
                    /\ ci' = 0
                    /\ mainPc' = "cmdq"
               ELSE /\ mainPc' = "aborted"
                    /\ UNCHANGED <<opencl_context, ci>>
    /\ UNCHANGED <<opencl_num_devices, opencl_cmdq>>
    /\ UNCHANGED <<i, opencl_num_threads, joined, failedAt, logged>>
    /\ UNCHANGED <<sigVars, workerVars, queueVars, schedVars>>

\* clCreateCommandQueue for device ci, and the loop's increment and test
CreateCommandQueue ==
    /\ mainPc = "cmdq"
    /\ ~Interrupted(-1)
    /\ \E ok \in BOOLEAN :
         IF ok THEN /\ opencl_cmdq' = [opencl_cmdq EXCEPT ![ci] = TRUE]
                    /\ ci' = ci + 1
                    /\ mainPc' = AfterCmdq(ci, opencl_num_devices)
               ELSE /\ mainPc' = AfterCmdqFail(ci, opencl_num_devices)
                    /\ ci' = IF mainPc' = "aborted" THEN ci ELSE ci + 1
                    /\ UNCHANGED opencl_cmdq
    /\ UNCHANGED <<opencl_num_devices, opencl_context>>
    /\ UNCHANGED <<i, opencl_num_threads, joined, failedAt, logged>>
    /\ UNCHANGED <<sigVars, workerVars, queueVars, schedVars>>

\* pgstrom_setup_shmem with on_shmem_zone_callback, then "Starting ..."
SetupShmem ==
    /\ mainPc = "shmem"
    /\ ~Interrupted(-1)
    /\ \E ok \in BOOLEAN :
         IF ok THEN /\ mainPc' = "nthreads"
                    /\ logged' = logged \cup {"Starting"}
               ELSE /\ mainPc' = "aborted"
                    /\ UNCHANGED logged
    /\ UNCHANGED <<i, opencl_num_threads, joined, failedAt>>
    /\ UNCHANGED <<initVars, sigVars, workerVars, queueVars, schedVars>>

(***************************************************************************)
(* pgstrom_opencl_main.                                                    *)
(***************************************************************************)
\* what sysconf(_SC_NPROCESSORS_ONLN) may report: -1 on error
SysconfResults == {-1} \cup (1..MaxThreads)

\* mutant of MallocCanSucceed: the allocation succeeds for any n
MallocCanSucceedAlways(n) == TRUE

\* malloc(sizeof(pthread_t) * n) can succeed only for a positive n: a
\* negative n converts to a size no allocation can satisfy
MallocCanSucceed(n) == n > 0

\* mutant of SpawnFail: "continue" in place of "break"
SpawnFailContinue(k, n) ==
    [pc |-> IF k + 1 < n THEN "spawn" ELSE "postspawn", i |-> k + 1]

\* pthread_create failed for worker k of n: "break"
SpawnFail(k, n) == [pc |-> "postspawn", i |-> k]

\* pthread_create succeeded for worker k of n: "i++", then "i < n"
SpawnOk(k, n) == [pc |-> IF k + 1 < n THEN "spawn" ELSE "postspawn", i |-> k + 1]

\* mutant of JoinNext: "i -= 2", every other thread is left out
JoinNextSkip(k) == k - 2

\* "--i" of the join loop
JoinNext(k) == k - 1

\* mutant of JoinCond: "while (--i > 0)", threads[0] is never joined
JoinCondSkipFirst(k) == k > 0

\* "while (--i >= 0)" with k the decremented value
JoinCond(k) == k >= 0

\* mutant of AfterJoin: the main routine returns without closing the queue
AfterJoinSkipClose == "done"

\* what follows the join loop: "Stopping ..." and the queue close
AfterJoin == "close"

\* "if (opencl_num_threads == 0) ... sysconf"; Assert(opencl_num_threads > 0)
\* ends the process in a build with assertions and is empty otherwise
ResolveThreads ==
    /\ mainPc = "nthreads"
    /\ ~Interrupted(-1)
    /\ \E n \in (IF opencl_num_threads = 0 THEN SysconfResults
                                           ELSE {opencl_num_threads}) :
         /\ opencl_num_threads' = n
         /\ \/ mainPc' = "malloc"
            \/ n <= 0 /\ mainPc' = "aborted"
    /\ UNCHANGED <<i, joined, failedAt, logged>>
    /\ UNCHANGED <<initVars, sigVars, workerVars, queueVars, schedVars>>

\* threads = malloc(...); on failure "out of memory" and return
Malloc ==
    /\ mainPc = "malloc"
    /\ ~Interrupted(-1)
    /\ \/ /\ MallocCanSucceed(opencl_num_threads)
          /\ mainPc' = "spawn"
          /\ i' = 0
          /\ UNCHANGED logged
       \/ /\ mainPc' = "oom"
          /\ logged' = logged \cup {"out of memory"}
          /\ UNCHANGED i
    /\ UNCHANGED <<opencl_num_threads, joined, failedAt>>
    /\ UNCHANGED <<initVars, sigVars, workerVars, queueVars, schedVars>>

\* one iteration of the pthread_create loop
Spawn ==
    /\ mainPc = "spawn"
    /\ ~Interrupted(-1)
    /\ \E ok \in BOOLEAN :
         LET nx == IF ok THEN SpawnOk(i, opencl_num_threads)
                         ELSE SpawnFail(i, opencl_num_threads)
         IN  /\ mainPc' = nx.pc
             /\ i' = nx.i
             /\ wpc' = IF ok THEN [wpc EXCEPT ![i] = "check"] ELSE wpc
             /\ failedAt' = IF ok THEN failedAt ELSE i
    /\ UNCHANGED <<opencl_num_threads, joined, logged>>
    /\ UNCHANGED <<wmsg, lastDeq>>
    /\ UNCHANGED <<initVars, sigVars, queueVars, schedVars>>

\* "if (i < opencl_num_threads)": the failure branch sets the flag (the call
\* of pgstrom_cancel_server_loop is the next step), the other logs "up"
PostSpawn ==
    /\ mainPc = "postspawn"
    /\ ~Interrupted(-1)
    /\ IF i < opencl_num_threads
          THEN /\ logged' = logged \cup {"failed to create server threads"}
               /\ pgstrom_clserv_exit_pending' = TRUE
               /\ mainPc' = "failcancel"
          ELSE /\ logged' = logged \cup {"server threads are up"}
               /\ UNCHANGED pgstrom_clserv_exit_pending
               /\ mainPc' = "join"
    /\ UNCHANGED <<i, opencl_num_threads, joined, failedAt>>
    /\ UNCHANGED <<handlers, nsig, cancelCalls, logVars>>
    /\ UNCHANGED <<initVars, workerVars, queueVars, schedVars>>

\* pgstrom_cancel_server_loop() of the failure branch
FailCancel ==
    /\ mainPc = "failcancel"
    /\ ~Interrupted(-1)
    /\ qlock = NoThread
    /\ RequestCancel
    /\ UNCHANGED qlock
    /\ mainPc' = "join"
    /\ UNCHANGED <<i, opencl_num_threads, joined, failedAt, logged>>
    /\ UNCHANGED <<pgstrom_clserv_exit_pending, handlers, nsig, logVars>>
    /\ UNCHANGED <<initVars, workerVars, schedVars>>

\* "while (--i >= 0) pthread_join(threads[i], NULL)": pthread_join returns
\* once the thread has returned; after the loop "Stopping ..." is logged
Join ==
    /\ mainPc = "join"
    /\ ~Interrupted(-1)
    /\ i' = JoinNext(i)
    /\ IF JoinCond(i')
          THEN /\ wpc[i'] = "exited"
               /\ joined' = Append(joined, i')
               /\ UNCHANGED <<mainPc, logged>>
          ELSE /\ mainPc' = AfterJoin
               /\ logged' = logged \cup {"Stopping"}
               /\ UNCHANGED joined
    /\ UNCHANGED <<opencl_num_threads, failedAt>>
    /\ UNCHANGED <<initVars, sigVars, workerVars, queueVars, schedVars>>

\* pgstrom_close_server_queue(), then the main routine returns
Close ==
    /\ mainPc = "close"
    /\ ~Interrupted(-1)
    /\ CloseServerQueue
    /\ mainPc' = "done"
    /\ UNCHANGED <<i, opencl_num_threads, joined, failedAt, logged>>
    /\ UNCHANGED <<initVars, sigVars, workerVars, schedVars>>

(***************************************************************************)
(* pgstrom_opencl_device_schedule: "return index++ % opencl_num_devices"   *)
(* on "static int index", called by the message callbacks.  The            *)
(* statement is a load of index, a store of the incremented value and a    *)
(* remainder of the loaded value; nothing makes the load and the store one *)
(* step.                                                                   *)
(***************************************************************************)
\* the remainder of C: it has the sign of the dividend
CRem(a, b) == IF a >= 0 THEN a % b ELSE -((((-(a + 1)) % b) + 1) % b)

\* the value "index++" stores.  The increment of INT_MAX is a signed
\* overflow: it wraps in a build with -fwrapv (the flags a PostgreSQL
\* extension inherits) and in any two's complement addition
Increment(x) == IF x = INT_MAX THEN INT_MIN ELSE x + 1

\* a build with -ftrapv ends the process at the overflow
MayTrap(x) == x = INT_MAX

\* mutant of ScheduleResult: "++index % opencl_num_devices"
ScheduleResultPreIncrement(x, n) == CRem(x + 1, n)

\* the value returned for the loaded value x and n devices
ScheduleResult(x, n) == CRem(x, n)

\* calls started so far
Calls == Len(schedLog) + Cardinality({c \in Workers : spc[c] = "read"})

\* worker c, inside a callback, enters the function and loads index
ScheduleLoad(c) ==
    /\ wpc[c] = "cb"
    /\ spc[c] = "idle"
    /\ ~Ended
    /\ Calls < MaxCalls
    /\ stmp' = [stmp EXCEPT ![c] = index]
    /\ spc' = [spc EXCEPT ![c] = "read"]
    /\ raced' = (raced \/ \E d \in Workers : d # c /\ spc[d] = "read")
    /\ UNCHANGED <<index, schedLog, readLog>>
    /\ UNCHANGED <<mainVars, initVars, sigVars, workerVars, queueVars>>

\* worker c stores the incremented value and returns the remainder, or the
\* overflow check of the build ends the process
ScheduleReturn(c) ==
    /\ spc[c] = "read"
    /\ ~Ended
    /\ \/ /\ index' = Increment(stmp[c])
          /\ schedLog' = Append(schedLog,
                                ScheduleResult(stmp[c], opencl_num_devices))
          /\ readLog' = Append(readLog, stmp[c])
          /\ spc' = [spc EXCEPT ![c] = "idle"]
          /\ UNCHANGED mainVars
       \/ /\ MayTrap(stmp[c])
          /\ mainPc' = "aborted"
          /\ UNCHANGED <<i, opencl_num_threads, joined, failedAt, logged>>
          /\ UNCHANGED <<index, schedLog, readLog, spc>>
    /\ UNCHANGED <<stmp, raced>>
    /\ UNCHANGED <<initVars, sigVars, workerVars, queueVars>>

SchedNext == \E c \in Workers : ScheduleLoad(c) \/ ScheduleReturn(c)

\* The server while it serves: the main routine waits in pthread_join, every
\* worker that has a message is inside its callback, the others wait in
\* dequeue.  The callbacks are the callers of the scheduler.
Serving ==
    /\ mainPc = "join"
    /\ i = MaxThreads
    /\ opencl_num_threads = MaxThreads
    /\ joined = <<>>
    /\ failedAt = -1
    /\ logged = {"Starting", "server threads are up"}
    /\ opencl_context = TRUE
    /\ opencl_cmdq = [d \in 0..(MaxDevices - 1) |-> d < opencl_num_devices]
    /\ ci = opencl_num_devices
    /\ pgstrom_clserv_exit_pending = FALSE
    /\ handlers = <<>>
    /\ nsig = 0
    /\ cancelCalls = 0
    /\ wpc = [w \in Workers |-> IF w < MaxMsgs THEN "cb" ELSE "deq"]
    /\ wmsg = [w \in Workers |-> IF w < MaxMsgs THEN w + 1 ELSE NoMsg]
    /\ lastDeq = [w \in Workers |-> IF w < MaxMsgs THEN "msg" ELSE "none"]
    /\ qstate = "Open"
    /\ queue = <<>>
    /\ nmsg = Cardinality(Workers \cap (0..(MaxMsgs - 1)))
    /\ processed = [m \in Msgs |-> IF m <= MaxThreads THEN 1 ELSE 0]
    /\ failed = [m \in Msgs |-> 0]
    /\ drained = <<>>
    /\ rejected = {}
    /\ blockedAtCancel = {}
    /\ queuedAtCancel = {}
    /\ qlock = NoThread
    /\ spc = [w \in Workers |-> "idle"]
    /\ stmp = [w \in Workers |-> 0]
    /\ schedLog = <<>>
    /\ readLog = <<>>
    /\ raced = FALSE
    /\ LogIdle

\* the scheduler from its first call, for every device count
SchedInit ==
    /\ opencl_num_devices \in 1..MaxDevices
    /\ Serving
    /\ index = 0

SchedSpec == SchedInit /\ [][SchedNext]_vars

\* the scheduler of a server that has served long enough for the counter to
\* be within MaxCalls calls of INT_MAX
WrapInit ==
    /\ opencl_num_devices \in 1..MaxDevices
    /\ Serving
    /\ index \in {INT_MAX - k : k \in 0..MaxCalls}

WrapSpec == WrapInit /\ [][SchedNext]_vars

(***************************************************************************)
(* __clserv_log, the branch taken when the log goes through the pipe of    *)
(* the syslogger (redirection_done && !am_syslogger).  A chunk is a header *)
(* with is_last and len, and len characters of the line.                   *)
(***************************************************************************)
\* the characters b[from + 1], ..., b[from + n]
Chunk(b, from, n) == [k \in 1..n |-> b[from + k]]

\* "p.proto.is_last = 'f'" before the chunks of the while loop
LoopChunkMark == "f"

\* "p.proto.is_last = 'f'" before the last chunk
LastChunkMark == "f"

\* "len = strlen(buf); data = buf": the call starts on the formatted line
LogStart ==
    /\ lpc = "start"
    /\ len' = Len(buf)
    /\ data' = 0
    /\ lpc' = "loop"
    /\ UNCHANGED <<buf, frames>>
    /\ UNCHANGED <<pgstrom_clserv_exit_pending, handlers, nsig, cancelCalls>>
    /\ UNCHANGED <<mainVars, initVars, workerVars, queueVars, schedVars>>

\* one iteration of "while (len > PIPE_MAX_PAYLOAD)"
LogWriteChunk ==
    /\ lpc = "loop"
    /\ len > PIPE_MAX_PAYLOAD
    /\ frames' = Append(frames, [is_last |-> LoopChunkMark,
                                 len |-> PIPE_MAX_PAYLOAD,
                                 data |-> Chunk(buf, data, PIPE_MAX_PAYLOAD)])
    /\ data' = data + PIPE_MAX_PAYLOAD
    /\ len' = len - PIPE_MAX_PAYLOAD
    /\ UNCHANGED <<lpc, buf>>
    /\ UNCHANGED <<pgstrom_clserv_exit_pending, handlers, nsig, cancelCalls>>
    /\ UNCHANGED <<mainVars, initVars, workerVars, queueVars, schedVars>>

\* the loop ends and the last chunk is written
LogWriteLast ==
    /\ lpc = "loop"
    /\ ~(len > PIPE_MAX_PAYLOAD)
    /\ frames' = Append(frames, [is_last |-> LastChunkMark,
                                 len |-> len,
                                 data |-> Chunk(buf, data, len)])
    /\ lpc' = "done"
    /\ UNCHANGED <<buf, data, len>>
    /\ UNCHANGED <<pgstrom_clserv_exit_pending, handlers, nsig, cancelCalls>>
    /\ UNCHANGED <<mainVars, initVars, workerVars, queueVars, schedVars>>

LogNext == LogStart \/ LogWriteChunk \/ LogWriteLast

\* the lines: at least one character (a line ends with "\n"), at most MaxLen
Lines == UNION {[1..n -> Bytes] : n \in 1..MaxLen}

\* a call of __clserv_log, for every line
LogInit ==
    /\ InitServer
    /\ lpc = "start"
    /\ buf \in Lines
    /\ data = 0
    /\ len = 0
    /\ frames = <<>>

LogSpec == LogInit /\ [][LogNext]_vars

MainStep ==
    \/ InstallHandlers
    \/ CreateContext
    \/ CreateCommandQueue
    \/ SetupShmem
    \/ ResolveThreads
    \/ Malloc
    \/ Spawn
    \/ PostSpawn
    \/ FailCancel
    \/ Join
    \/ Close

WorkerStep(w) ==
    \/ WorkerCheck(w)
    \/ WorkerDequeue(w)
    \/ WorkerCallbackReturn(w)

Signal == \E sig \in Signals, t \in Threads : SigDeliver(sig, t)

Handler == \E k \in 1..Len(handlers) : HandlerFinish(k)

Next ==
    \/ MainStep
    \/ \E w \in Workers : WorkerStep(w)
    \/ Signal
    \/ Handler
    \/ Enqueue
    \/ \E w \in Workers : CallbackEnqueue(w)

Spec == Init /\ [][Next]_vars

\* Every thread that can run does run: the threads are scheduled by the
\* operating system, pthread_join returns once its thread has returned, and
\* the callbacks return.  Nothing obliges a producer to enqueue or a signal
\* to arrive.
Fairness ==
    /\ WF_vars(MainStep)
    /\ \A w \in Workers : WF_vars(WorkerStep(w))
    /\ WF_vars(Handler)

FairSpec == Init /\ [][Next]_vars /\ Fairness

(***************************************************************************)
(* The queue calls of the server's own threads with the lock taken and     *)
(* released in separate steps.  The lock is a plain mutex: a thread that   *)
(* asks for it while it is held waits, also when the holder is the thread  *)
(* itself.  The signal handlers run pgstrom_cancel_server_loop on the      *)
(* thread they interrupt, at whatever point that thread is; the producers  *)
(* are other processes, which these signals do not interrupt.              *)
(***************************************************************************)
\* worker w, inside pgstrom_dequeue_server_message, takes the lock
DequeueLock(w) ==
    /\ wpc[w] = "deq"
    /\ ~Interrupted(w)
    /\ qlock = NoThread
    /\ qlock' = w
    /\ UNCHANGED <<qstate, queue, nmsg, processed, failed, drained, rejected,
                   blockedAtCancel, queuedAtCancel>>
    /\ UNCHANGED <<mainVars, initVars, sigVars, workerVars, schedVars>>

\* worker w, holding the lock, returns from the dequeue with its result
DequeueUnlock(w) ==
    /\ wpc[w] = "deq"
    /\ ~Interrupted(w)
    /\ qlock = w
    /\ DequeueReturn(w)
    /\ qlock' = NoThread

\* worker w, holding the lock, finds nothing to return and waits: the wait
\* releases the lock, and the worker takes it again when it is woken
DequeueWait(w) ==
    /\ wpc[w] = "deq"
    /\ ~Interrupted(w)
    /\ qlock = w
    /\ DequeueResults = {}
    /\ qlock' = NoThread
    /\ UNCHANGED <<qstate, queue, nmsg, processed, failed, drained, rejected,
                   blockedAtCancel, queuedAtCancel>>
    /\ UNCHANGED <<mainVars, initVars, sigVars, workerVars, schedVars>>

\* the callback running on worker w calls enqueue, which takes the lock
CallbackEnqueueLock(w) ==
    /\ wpc[w] = "cb"
    /\ ~Interrupted(w)
    /\ nmsg < MaxMsgs
    /\ qlock = NoThread
    /\ qlock' = w
    /\ UNCHANGED <<qstate, queue, nmsg, processed, failed, drained, rejected,
                   blockedAtCancel, queuedAtCancel>>
    /\ UNCHANGED <<mainVars, initVars, sigVars, workerVars, schedVars>>

\* the enqueue called on worker w acts and releases the lock
CallbackEnqueueUnlock(w) ==
    /\ wpc[w] = "cb"
    /\ ~Interrupted(w)
    /\ qlock = w
    /\ EnqueueMessage
    /\ qlock' = NoThread
    /\ UNCHANGED <<mainVars, initVars, sigVars, workerVars, schedVars>>

\* the main routine, inside pgstrom_cancel_server_loop, takes the lock
FailCancelLock ==
    /\ mainPc = "failcancel"
    /\ ~Interrupted(-1)
    /\ qlock = NoThread
    /\ qlock' = -1
    /\ UNCHANGED <<qstate, queue, nmsg, processed, failed, drained, rejected,
                   blockedAtCancel, queuedAtCancel>>
    /\ UNCHANGED cancelCalls
    /\ UNCHANGED <<pgstrom_clserv_exit_pending, handlers, nsig, logVars>>
    /\ UNCHANGED <<mainVars, initVars, workerVars, schedVars>>

\* the main routine, holding the lock, cancels, releases the lock and returns
FailCancelUnlock ==
    /\ mainPc = "failcancel"
    /\ ~Interrupted(-1)
    /\ qlock = -1
    /\ RequestCancel
    /\ qlock' = NoThread
    /\ mainPc' = "join"
    /\ UNCHANGED <<i, opencl_num_threads, joined, failedAt, logged>>
    /\ UNCHANGED <<pgstrom_clserv_exit_pending, handlers, nsig, logVars>>
    /\ UNCHANGED <<initVars, workerVars, schedVars>>

LockMainStep ==
    \/ InstallHandlers
    \/ CreateContext
    \/ CreateCommandQueue
    \/ SetupShmem
    \/ ResolveThreads
    \/ Malloc
    \/ Spawn
    \/ PostSpawn
    \/ FailCancelLock
    \/ FailCancelUnlock
    \/ Join
    \/ Close

LockWorkerStep(w) ==
    \/ WorkerCheck(w)
    \/ DequeueLock(w)
    \/ DequeueUnlock(w)
    \/ DequeueWait(w)
    \/ WorkerCallbackReturn(w)
    \/ CallbackEnqueueLock(w)
    \/ CallbackEnqueueUnlock(w)

LockNext ==
    \/ LockMainStep
    \/ \E w \in Workers : LockWorkerStep(w)
    \/ Signal
    \/ Handler
    \/ Enqueue

LockSpec == Init /\ [][LockNext]_vars

(***************************************************************************)
(* Properties.                                                             *)
(***************************************************************************)
\* messages whose enqueue succeeded
Accepted == (1..nmsg) \ rejected
\* workers whose local msg is m
Holders(m) == {w \in Workers : wmsg[w] = m}
\* worker threads that were created
Created == {w \in Workers : wpc[w] # "none"}
\* the main routine has left the join loop
PastJoin == mainPc \in {"close", "done"}
\* number of places of the queue that hold m
InQueue(m) == Cardinality({k \in 1..Len(queue) : queue[k] = m})

\* C1: every enqueued message is at any time in exactly one place: still
\* queued, handed to a callback exactly once, or failed back exactly once by
\* the queue close; no two workers hold the same message; and once the main
\* routine has closed the queue every enqueued message has been processed
\* exactly once or failed back exactly once, never both, never neither.
C1_ProcessedOrFailedOnce ==
    /\ \A m \in Msgs : Cardinality(Holders(m)) <= 1
    /\ \A m \in Msgs : m \notin Accepted =>
           InQueue(m) + processed[m] + failed[m] = 0
    /\ \A m \in Accepted : InQueue(m) + processed[m] + failed[m] = 1
    /\ \A w \in Workers : wmsg[w] # NoMsg => processed[wmsg[w]] = 1
    /\ mainPc = "done" =>
           \A m \in Accepted : processed[m] + failed[m] = 1

\* C1 witness: after a signal the main routine has closed the queue, one
\* message was processed by a worker and another one was failed back.
C1_Witness ==
    /\ mainPc = "done"
    /\ nsig > 0
    /\ \E m1, m2 \in Accepted : processed[m1] = 1 /\ failed[m2] = 1

\* C2: a worker that was blocked in dequeue when pgstrom_cancel_server_loop
\* ran can return from that call, returns no message from it, and does
\* return (under fair scheduling); and a message that was queued when the
\* cancel ran and that no worker dequeued is in the result of the queue close.
C2_CancelWakesAllNoLoss ==
    /\ [](\A w \in blockedAtCancel : wpc[w] = "deq" => DequeueResults = {NoMsg})
    /\ [][\A w \in blockedAtCancel :
            (wpc[w] = "deq" /\ wpc'[w] # "deq") =>
                (wpc'[w] = "check" /\ wmsg'[w] = NoMsg)]_vars
    /\ \A w \in Workers : (w \in blockedAtCancel) ~> (wpc[w] # "deq")
    /\ [](mainPc = "done" =>
            \A m \in queuedAtCancel : processed[m] = 0 => m \in Range(drained))

\* C2 witness: every one of MaxThreads workers was blocked in dequeue when
\* the cancel ran, and all of them have returned and left their loop.
C2_Witness ==
    /\ blockedAtCancel = Workers
    /\ \A w \in Workers : wpc[w] = "exited"

\* C3: once a signal has been delivered, the main routine eventually is past
\* the join loop with every created worker returned and joined (or the
\* process was ended by elog(ERROR) during startup).
C3_ShutdownCompletes ==
    (nsig > 0) ~>
        \/ mainPc = "aborted"
        \/ /\ PastJoin
           /\ \A w \in Created : wpc[w] = "exited" /\ w \in Range(joined)

\* C4: the queue is closed, or about to be closed by the main routine, only
\* when every created worker has returned and has been joined: no worker is
\* inside dequeue or inside a callback then.
C4_CloseOnlyAfterJoin ==
    (PastJoin \/ qstate = "Closed") =>
        \A w \in Workers :
            /\ wpc[w] \in {"none", "exited"}
            /\ wpc[w] = "exited" => w \in Range(joined)

\* C4 witness: the main routine is about to close the queue, MaxThreads
\* workers were joined and a message is still queued.
C4_Witness ==
    /\ mainPc = "close"
    /\ Len(joined) = MaxThreads
    /\ queue # <<>>

\* the workers k-1, ..., 0 in this order
Downto(k) == [j \in 1..k |-> k - j]

\* C5: when pthread_create fails for worker failedAt, no worker from failedAt
\* on is ever created; once the main routine is past the join loop the flag
\* is set, the queue cancel was called, the workers before failedAt have all
\* returned and been joined, the failure was logged, and from then on no
\* callback is invoked.
C5_StartupAllOrNothing ==
    /\ [](failedAt >= 0 =>
            \A w \in Workers : w >= failedAt => wpc[w] = "none")
    /\ []((failedAt >= 0 /\ PastJoin) =>
            /\ pgstrom_clserv_exit_pending
            /\ cancelCalls >= 1
            /\ joined = Downto(failedAt)
            /\ \A w \in 0..(failedAt - 1) : wpc[w] = "exited"
            /\ "failed to create server threads" \in logged)
    /\ [][(failedAt >= 0 /\ PastJoin) => processed' = processed]_vars

\* C5 witness: worker 0 was created and processed a message, the creation of
\* worker 1 failed, and the main routine has finished.
C5_Witness ==
    /\ failedAt = 1
    /\ mainPc = "done"
    /\ \E m \in Accepted : processed[m] = 1

\* C6: as long as no two calls have overlapped, the k-th call to return
\* (k = 0, 1, ...) returned k mod opencl_num_devices.
C6_RoundRobinSequence ==
    ~raced =>
        \A k \in 1..Len(schedLog) : schedLog[k] = (k - 1) % opencl_num_devices

\* C6 witness: MaxCalls calls, none overlapping, on two devices.
C6_Witness ==
    /\ ~raced
    /\ Len(schedLog) = MaxCalls
    /\ opencl_num_devices = 2

\* C7: when no call is in progress the counter has advanced by the number of
\* calls made, and no two calls have read the same value of the counter.
C7_CounterAdvancesOncePerCall ==
    /\ (\A c \in Workers : spc[c] = "idle") => index = Len(schedLog)
    /\ \A j, k \in 1..Len(readLog) : j # k => readLog[j] # readLog[k]

\* C8: every returned device index is in [0, opencl_num_devices).
C8_IndexInRange ==
    \A k \in 1..Len(schedLog) : schedLog[k] \in 0..(opencl_num_devices - 1)

\* C9: whenever a worker thread exists, the context and the command queue of
\* every device have been created.
C9_QueuesBeforeWorkers ==
    Created # {} =>
        /\ opencl_context
        /\ \A d \in 0..(opencl_num_devices - 1) : opencl_cmdq[d]

\* C9 witness: a worker is inside dequeue.
C9_Witness == \E w \in Workers : wpc[w] = "deq"

\* C10, as claimed: a signal that arrives when the flag is already set
\* changes neither the flag nor the queue state and requests no cancellation.
C10_RepeatedSignalNoOp ==
    [][\A k \in 1..Len(handlers) :
          (HandlerFinish(k) /\ handlers[k].pending) =>
              /\ pgstrom_clserv_exit_pending' = pgstrom_clserv_exit_pending
              /\ qstate' = qstate
              /\ cancelCalls' = cancelCalls]_vars

\* C10, amended: a signal that arrives when the flag is already set leaves
\* the flag set, and its handler calls pgstrom_cancel_server_loop once more;
\* the call leaves the queue state as it is unless no earlier request has
\* reached the queue, and never leaves the queue Open.
C10_RepeatedSignalCancelsAgain ==
    /\ [][(nsig' # nsig /\ pgstrom_clserv_exit_pending) =>
            /\ pgstrom_clserv_exit_pending'
            /\ qstate' = qstate
            /\ cancelCalls' = cancelCalls]_vars
    /\ [][\A k \in 1..Len(handlers) :
            (/\ Len(handlers') < Len(handlers)
             /\ handlers[k].pending
             /\ HandlerFinish(k)) =>
                /\ pgstrom_clserv_exit_pending /\ pgstrom_clserv_exit_pending'
                /\ cancelCalls' = cancelCalls + 1
                /\ qstate # "Open" => qstate' = qstate
                /\ qstate' # "Open"]_vars

\* C10 witness: two signals were delivered, both handlers have returned and
\* cancellation was requested twice.
C10_Witness ==
    /\ nsig = 2
    /\ handlers = <<>>
    /\ failedAt = -1
    /\ cancelCalls = 2

\* C11: a call of pgstrom_cancel_server_loop that is not the first one (a
\* second signal, or a signal and the failure branch of the main routine)
\* changes nothing of the queue: its state, its messages, the messages failed
\* back, and it finds no dequeuer left to wake; no request closes the queue,
\* and after a request the queue is never Open.
C11_CancelIdempotent ==
    /\ [][(cancelCalls' = cancelCalls + 1 /\ cancelCalls >= 1) =>
            /\ qstate' = qstate
            /\ queue' = queue
            /\ failed' = failed
            /\ drained' = drained
            /\ blockedAtCancel' = blockedAtCancel
            /\ wpc' = wpc
            /\ wmsg' = wmsg]_vars
    /\ [][cancelCalls' # cancelCalls => (qstate' = "Closed" <=> qstate = "Closed")]_vars
    /\ [](cancelCalls >= 1 => qstate # "Open")

\* C11 witness: worker 0 was blocked in dequeue, the creation of worker 1
\* failed, and both a signal handler and the failure branch have requested
\* the cancellation.
C11_Witness ==
    /\ cancelCalls = 2
    /\ nsig = 1
    /\ failedAt = 1
    /\ blockedAtCancel = {0}
    /\ handlers = <<>>

Resolved == mainPc \notin {"start", "ctx", "cmdq", "shmem", "nthreads"}

CmdqFailed == mainPc = "aborted" /\ opencl_context /\ ci < opencl_num_devices

\* C14: a step of the command queue loop that does not create the queue of
\* its device ends the process; the process ended that way has no worker
\* thread, never logged that it starts and does nothing more; and the main
\* routine is past init_opencl_context_and_shmem only with the command queue
\* of every device.
C14_CmdqFailureIsFatal ==
    /\ [][(mainPc = "cmdq" /\ (mainPc' # mainPc \/ ci' # ci)
                           /\ ~opencl_cmdq'[ci]) =>
            mainPc' = "aborted"]_vars
    /\ [](CmdqFailed => Created = {} /\ "Starting" \notin logged)
    /\ [][CmdqFailed => (CmdqFailed' /\ wpc' = wpc /\ opencl_cmdq' = opencl_cmdq)]_vars
    /\ []((mainPc \notin {"start", "ctx", "cmdq", "aborted"} \/ Created # {}) =>
            \A d \in 0..(opencl_num_devices - 1) : opencl_cmdq[d])

\* C14 witness: the command queue of device 0 was created, the creation for
\* device 1 failed and the process has ended.
C14_Witness ==
    /\ CmdqFailed
    /\ ci = 1
    /\ opencl_cmdq[0]
    /\ ~opencl_cmdq[1]

\* the place of a queue state in Open -> Cancelling -> Closed
QRank(q) == CASE q = "Open" -> 0 [] q = "Cancelling" -> 1 [] q = "Closed" -> 2

\* C15: the flag is false when the main routine starts, a set flag stays set
\* in every step, and the queue state never moves backward; the queue is
\* closed only from Cancelling.
C15_ShutdownMonotone ==
    /\ [](mainPc = "start" => ~pgstrom_clserv_exit_pending)
    /\ [][pgstrom_clserv_exit_pending => pgstrom_clserv_exit_pending']_vars
    /\ [][QRank(qstate') >= QRank(qstate)]_vars
    /\ [][QRank(qstate') <= QRank(qstate) + 1]_vars

\* C15 witness: the flag was written by two signal handlers and the queue
\* has gone from Open through Cancelling to Closed.
C15_Witness ==
    /\ pgstrom_clserv_exit_pending
    /\ nsig = 2
    /\ cancelCalls = 2
    /\ qstate = "Closed"

\* C16, as claimed: a worker that has left its loop found the flag set, and
\* the most recent dequeue it made, if it made any, returned no message: it
\* did not leave directly after retrieving and processing a message.
C16_ExitOnlyAfterEmptyDequeue ==
    \A w \in Workers :
        wpc[w] = "exited" =>
            (pgstrom_clserv_exit_pending /\ lastDeq[w] # "msg")

\* C16, amended: a worker leaves its loop only by evaluating the loop
\* condition with the flag set, never from inside a dequeue or a callback and
\* never with the flag clear; a worker that evaluates the condition with the
\* flag set does not dequeue again, whatever its last dequeue returned.
C16_ExitOnlyAtLoopCondition ==
    /\ [][\A w \in Workers :
            (wpc[w] # "exited" /\ wpc'[w] = "exited") =>
                /\ wpc[w] = "check"
                /\ wmsg[w] = NoMsg
                /\ pgstrom_clserv_exit_pending]_vars
    /\ [][\A w \in Workers :
            (wpc[w] = "check" /\ pgstrom_clserv_exit_pending) =>
                wpc'[w] \in {"check", "exited"}]_vars
    /\ [][\A w \in Workers :
            (wpc[w] = "check" /\ wpc'[w] = "deq") =>
                ~pgstrom_clserv_exit_pending]_vars

\* C16 witness: a worker has left its loop and its most recent dequeue had
\* returned a message, which it processed.
C16_Witness ==
    \E w \in Workers :
        /\ wpc[w] = "exited"
        /\ lastDeq[w] = "msg"
        /\ \E m \in Accepted : processed[m] = 1

\* a signal handler waits for the queue's lock, which the thread it
\* interrupted holds: the handler never gets it and the thread never releases
\* it, so no thread can use the queue any more
SelfDeadlock(t) == qlock = t /\ Interrupted(t)

\* C17: no signal handler ever runs pgstrom_cancel_server_loop on a thread
\* that holds the queue's lock.
C17_HandlerNeverDeadlocks == \A t \in Threads : ~SelfDeadlock(t)

\* C18: pthread_join is called only for threads that were created and have
\* returned, once for each, the last created first, and only when no thread
\* is created any more; when "Stopping" is logged, and from then on, the
\* joined threads are exactly the created ones, in reverse order of creation.
C18_JoinedOnceInReverse ==
    /\ \A k \in 1..Len(joined) :
          /\ joined[k] \in Created
          /\ wpc[joined[k]] = "exited"
          /\ joined[k] = Cardinality(Created) - k
    /\ joined # <<>> => mainPc \in {"join", "close", "done"}
    /\ "Stopping" \in logged =>
          /\ joined = Downto(Cardinality(Created))
          /\ PastJoin
    /\ PastJoin => "Stopping" \in logged
    /\ failedAt >= 0 => Created = 0..(failedAt - 1)
    /\ failedAt = -1 => Created \subseteq 0..(i - 1) \/ mainPc \in {"join", "close", "done"}

\* C18 witness: all MaxThreads workers were started, a signal stopped them,
\* they were joined in the order MaxThreads-1, ..., 0 and "Stopping" was
\* logged.
C18_Witness ==
    /\ failedAt = -1
    /\ nsig > 0
    /\ joined = Downto(MaxThreads)
    /\ "Stopping" \in logged
    /\ "server threads are up" \in logged

\* pgstrom_opencl_main has returned to its caller
Returned == mainPc \in {"done", "oom"}

\* C19: when the main routine has returned after initialization, the queue
\* is closed and holds no message: every message that was accepted has been
\* processed or failed back.
C19_ClosedOnEveryReturn ==
    Returned =>
        /\ qstate = "Closed"
        /\ queue = <<>>
        /\ \A m \in Accepted : processed[m] + failed[m] = 1

\* the payloads of the chunks s[1], ..., s[k], one after the other
RECURSIVE Concat(_, _)
Concat(s, k) == IF k = 0 THEN <<>> ELSE Concat(s, k - 1) \o s[k].data

\* C20: when __clserv_log has written a line to the pipe, every chunk has
\* at most PIPE_MAX_PAYLOAD characters and as many as its len says, the
\* chunks one after the other are the line, every chunk but the final one is
\* marked 'f' (not the last) and the final one is marked 't' (the last).
C20_FramesOfLine ==
    lpc = "done" =>
        /\ frames # <<>>
        /\ \A k \in 1..Len(frames) :
              /\ frames[k].len <= PIPE_MAX_PAYLOAD
              /\ frames[k].len = Len(frames[k].data)
        /\ Concat(frames, Len(frames)) = buf
        /\ \A k \in 1..(Len(frames) - 1) : frames[k].is_last = "f"
        /\ frames[Len(frames)].is_last = "t"

=============================================================================
